---- MODULE Spec2Model ----
(***************************************************************************)
(* Conference orchestration engine of backend/app/main.py.                 *)
(*                                                                         *)
(* One conference is modelled from the moment start_conference has stored  *)
(* it.  The program runs on one asyncio event loop: the background driver  *)
(* (run_conference) and one websocket_endpoint handler per observer        *)
(* connection are coroutines that interleave only where a coroutine        *)
(* suspends.  A coroutine suspends at asyncio.sleep, at a send or close on *)
(* a websocket and at receive_text; generate_ai_response and the summary   *)
(* call in generate_conclusion never await, so a generation call is part   *)
(* of the step that issues it.  broadcast_message returns without          *)
(* suspending when the registry of the conference is empty.                *)
(*                                                                         *)
(* Every coroutine keeps a stack of code positions (labels).  An action    *)
(* runs one coroutine from its position to its next suspension (Run).      *)
(***************************************************************************)
EXTENDS Integers, Sequences, FiniteSets, TLC

\* ------------------------------------------------------------------ bounds
MaxRounds == 2
MaxConns == 1
MaxCommands == 2
\* sockets and rounds of the scenario in which clients advance the rounds
MaxSockets == 2
RoundsAdvance == 3
\* failed sends counted per socket
MaxFailures == 2
\* texts received in the scenario of one client session
MaxPayloads == 2
MaxTranscript == 12

\* --------------------------------------------------------------- constants
\* MODERATOR_CONFIG["id"] (app.config); add_message compares with the same literal
MODERATOR_ID == "moderator"

\* the coroutines: the background driver and one handler per socket
DRIVER == 0
Sockets == 1..MaxSockets
Conns == 1..MaxConns
Procs == {DRIVER} \cup Sockets

\* The configurations a conference is created with.  start_conference accepts
\* a configuration with at least two active participants (the moderator counts
\* when it is listed); rounds is at least 1.  ConferenceConfig has no chair
\* field and ignores extra fields, so config.dict() never carries a chair.
Configs ==
  { [ participants |-> << [id |-> MODERATOR_ID, isActive |-> TRUE],
                          [id |-> "A", isActive |-> TRUE],
                          [id |-> "B", isActive |-> FALSE] >>,
      rounds |-> r, chair |-> "" ] : r \in 1..MaxRounds }
  \cup
  { [ participants |-> << [id |-> "A", isActive |-> TRUE],
                          [id |-> "B", isActive |-> TRUE] >>,
      rounds |-> 1, chair |-> "" ] }

\* texts a client may send on its socket: the two commands, a message of
\* another type, a message with no type, JSON that is not an object, and
\* text that is not JSON
NEXT_ROUND == "{\"type\": \"next_round\"}"
END_CONFERENCE == "{\"type\": \"end_conference\"}"
ClientMessages == {NEXT_ROUND, END_CONFERENCE, "{\"type\": \"pause\"}", "{}", "[1]", "next_round"}

\* json.loads(data): ok is FALSE for JSONDecodeError; dict tells whether
\* the value is an object; type is message.get("type", "")
json_loads(data) ==
  CASE data = NEXT_ROUND -> [ ok |-> TRUE, dict |-> TRUE, type |-> "next_round" ]
    [] data = END_CONFERENCE -> [ ok |-> TRUE, dict |-> TRUE, type |-> "end_conference" ]
    [] data = "{\"type\": \"pause\"}" -> [ ok |-> TRUE, dict |-> TRUE, type |-> "pause" ]
    [] data = "{}" -> [ ok |-> TRUE, dict |-> TRUE, type |-> "" ]
    [] data = "[1]" -> [ ok |-> TRUE, dict |-> FALSE, type |-> "" ]
    [] OTHER -> [ ok |-> FALSE, dict |-> FALSE, type |-> "" ]

\* the texts process_client_message acts on
Commands ==
  { data \in ClientMessages :
      LET message == json_loads(data)
      IN message.ok /\ message.dict /\ message.type \in {"next_round", "end_conference"} }

VARIABLES
  config,             \* active_conferences[id]["config"]: participants, rounds
  stage,              \* active_conferences[id]["stage"]
  current_round,      \* active_conferences[id]["current_round"]
  messages,           \* active_conferences[id]["messages"]
  connected_clients,  \* connected_clients[id]: the list of registered sockets
  next_uuid,          \* number of uuid4 values drawn by add_message
  proc,               \* per coroutine: stack of code positions and locals
  client_state,       \* per socket: CONNECTING, CONNECTED, DISCONNECTED
  commands_sent,      \* number of command payloads received so far
  end_seen,           \* an end_conference payload was received in discussion
  obs,                \* what the sockets were sent and how the broadcasts went
  creation            \* the request to start_conference and its response

vars == << config, stage, current_round, messages, connected_clients, next_uuid,
           proc, client_state, commands_sent, end_seen, obs, creation >>

\* the mutable state as one record, for the step functions below
Pack ==
  [ config |-> config, stage |-> stage, current_round |-> current_round,
    messages |-> messages, connected_clients |-> connected_clients,
    next_uuid |-> next_uuid, proc |-> proc, client_state |-> client_state,
    end_seen |-> end_seen, obs |-> obs, gen_fails |-> FALSE, trace |-> FALSE,
    y |-> FALSE, slept |-> FALSE ]

Unpack(s) ==
  /\ stage' = s.stage
  /\ current_round' = s.current_round
  /\ messages' = s.messages
  /\ connected_clients' = s.connected_clients
  /\ next_uuid' = s.next_uuid
  /\ proc' = s.proc
  /\ client_state' = s.client_state
  /\ end_seen' = s.end_seen
  /\ config' = config

\* ---------------------------------------------------------- control helpers
Top(s, p) == Head(s.proc[p].stack)
Goto(s, p, l) == [s EXCEPT !.proc[p].stack = <<l>> \o Tail(@)]
Call(s, p, f, r) == [s EXCEPT !.proc[p].stack = <<f, r>> \o Tail(@)]
Ret(s, p) == [s EXCEPT !.proc[p].stack = Tail(@)]
\* the coroutine suspends in a send or a close (Suspend) or in a sleep (Sleep)
Suspend(s) == [s EXCEPT !.y = TRUE, !.slept = FALSE]
Sleep(s) == [s EXCEPT !.y = TRUE, !.slept = TRUE]

RECURSIVE IndexOf(_, _, _)
\* position of the first element of q at or after i that equals x, 0 if none
IndexOf(q, x, i) ==
  IF i > Len(q) THEN 0 ELSE IF q[i] = x THEN i ELSE IndexOf(q, x, i + 1)

\* list.remove(x) where x is present: drops the first occurrence
RemoveAt(q, k) == SubSeq(q, 1, k - 1) \o SubSeq(q, k + 1, Len(q))

Range(q) == {q[k] : k \in 1..Len(q)}

\* nothing was sent yet and no broadcast is under way
NoObs ==
  [ init_sent |-> {},                         \* sockets that were sent the init payload
    snapshot |-> [c \in Sockets |-> <<>>],     \* ids of the messages of that payload
    live |-> [c \in Sockets |-> <<>>],         \* payloads the broadcasts sent to the socket
    failures |-> [c \in Sockets |-> 0],        \* sends to the socket that raised
    bc_start |-> [p \in Procs |-> <<>>],       \* the registry when p's broadcast began
    bc_sent |-> [p \in Procs |-> {}],          \* sockets p's broadcast has sent to
    bc_failed |-> [p \in Procs |-> {}],        \* sockets on which p's broadcast failed
    payloads |-> <<>>,                         \* what the handlers received, in order
    calls |-> <<>>,                            \* payloads of the calls of broadcast_message
    http |-> <<>>,                             \* the last answer to a GET: route, status
    prompts |-> <<>>,                          \* the context of each prompt of a round
    missed |-> {},     \* registered throughout a broadcast that ended without trying them
    blocked |-> {} ]   \* not tried by a broadcast over an unchanged registry after a failure

\* the stage of a conference id that is not in active_conferences
ABSENT == "absent"

\* the conference ids of requests: the id of the conference that
\* start_conference stores, and an id that is never stored
THE_ID == "conf"
ConferenceIds == {THE_ID, "other"}

\* conference_id in active_conferences, given the stage of THE_ID
InStore(st, cid) == cid = THE_ID /\ st # ABSENT

\* ------------------------------------------------------------- participants
NoLocals ==
  [ stack |-> <<>>, conference_id |-> THE_ID, rn |-> 0, i |-> 0, spk |-> "", txt |-> "",
    it_live |-> FALSE, it_list |-> <<>>, it_i |-> 0, client |-> 0, ev |-> <<>> ]

IsSpeaker(q) == q.isActive /\ q.id # MODERATOR_ID

\* next((p for p in participants if p["isActive"] and p["id"] != moderator), None):
\* the id of the first such participant, "" for None
FirstSpeaker(parts) ==
  LET sel == SelectSeq(parts, IsSpeaker)
  IN IF sel = <<>> THEN "" ELSE sel[1].id

\* next((p for p in participants if p["id"] == cid), None), "" for None
ParticipantById(parts, cid) ==
  LET sel == SelectSeq(parts, LAMBDA q: q.id = cid)
  IN IF sel = <<>> THEN "" ELSE sel[1].id

\* the chair of a discussion round
RoundChair(cfg) ==
  LET explicit == IF cfg.chair # "" THEN ParticipantById(cfg.participants, cfg.chair) ELSE ""
      first == FirstSpeaker(cfg.participants)
  IN IF explicit # "" THEN explicit
     ELSE IF first # "" THEN first
     ELSE "default_chair"

\* the chair of the conclusion, "" when there is none
ConclusionChair(cfg) ==
  LET explicit == IF cfg.chair # "" THEN ParticipantById(cfg.participants, cfg.chair) ELSE ""
  IN IF explicit # "" THEN explicit ELSE FirstSpeaker(cfg.participants)

\* the speakers of a round without the exclusion of the moderator
RoundSpeakers_with_moderator(cfg) ==
  SelectSeq(cfg.participants, LAMBDA q: q.isActive /\ q.id # RoundChair(cfg))

\* the speakers of a round after the chair, in list order
RoundSpeakers(cfg) ==
  SelectSeq(cfg.participants,
            LAMBDA q: q.isActive /\ q.id # RoundChair(cfg) /\ q.id # MODERATOR_ID)

\* the first n elements instead of the last n
Trailing_leading(msgs, n) == SubSeq(msgs, 1, n)

\* msgs[-n:], the slice of Python: the last n elements, and the whole list
\* when n is 0
Trailing(msgs, n) == IF n = 0 THEN msgs ELSE SubSeq(msgs, Len(msgs) - n + 1, Len(msgs))

Min(a, b) == IF a < b THEN a ELSE b

\* [m["text"] for m in conf["messages"][-min(k, len(conf["messages"])):]]
previous_messages(msgs, k) ==
  LET tail == Trailing(msgs, Min(k, Len(msgs)))
  IN [j \in 1..Len(tail) |-> tail[j].text]

\* ------------------------------------------------------------ the coroutines
\* client.send_json(message) in the broadcast of coroutine p: the send raises
\* on a socket that was closed or whose peer is gone
send_json(s, p, c, payload) ==
  IF s.client_state[c] = "CONNECTED"
  THEN [s EXCEPT !.obs.live[c] = Append(@, payload), !.obs.bc_sent[p] = @ \cup {c}]
  ELSE [s EXCEPT !.obs.failures[c] = IF @ < MaxFailures THEN @ + 1 ELSE @,
                 !.obs.bc_failed[p] = @ \cup {c}]

\* the broadcast of p ends: its locals go, and what it left out is noted
EndBroadcast(s, p, lst) ==
  LET untried == Range(lst) \ (s.obs.bc_sent[p] \cup s.obs.bc_failed[p])
      missed == untried \cap Range(s.obs.bc_start[p]) \cap Range(s.connected_clients)
      blocked == IF s.obs.bc_failed[p] # {} /\ lst = s.obs.bc_start[p] THEN untried ELSE {}
  IN [s EXCEPT !.proc[p].it_live = FALSE, !.proc[p].it_list = <<>>, !.proc[p].it_i = 0,
               !.proc[p].client = 0, !.proc[p].ev = <<>>,
               !.obs.missed = @ \cup missed, !.obs.blocked = @ \cup blocked,
               !.obs.bc_start[p] = <<>>, !.obs.bc_sent[p] = {}, !.obs.bc_failed[p] = {}]

\* broadcast_message with the send outside the try: an exception of the send
\* ends the loop and unwinds the coroutine
broadcast_message_raises(s, p) ==
  LET l == Top(s, p)
      me == s.proc[p]
      lst == IF me.it_live THEN s.connected_clients ELSE me.it_list
      to == lst[me.it_i + 1]
      sent == send_json([s EXCEPT !.proc[p].it_i = @ + 1, !.proc[p].client = to],
                        p, to, me.ev)
      called == IF s.trace THEN [s EXCEPT !.obs.calls = Append(@, me.ev)] ELSE s
  IN IF l = "bc"
     THEN IF s.connected_clients = <<>>
          THEN Ret([called EXCEPT !.proc[p].ev = <<>>], p)
          ELSE Goto([called EXCEPT !.proc[p].it_live = TRUE, !.proc[p].it_i = 0,
                                   !.obs.bc_start[p] = s.connected_clients], p, "bcl")
     ELSE IF me.it_i < Len(lst)
          THEN IF s.client_state[to] = "CONNECTED"
               THEN Suspend(sent)
               ELSE [EndBroadcast(sent, p, lst) EXCEPT
                       !.proc[p].stack = IF p = DRIVER THEN <<>> ELSE <<"ws2">>]
          ELSE Ret(EndBroadcast(s, p, lst), p)

\* broadcast_message: "bc" entry, "bcl" the loop over the registry.  The list
\* iterator reads the list object it was created on: the registry itself
\* (it_live) or, once end_conference has rebound the registry to a new list,
\* the old object (it_list).
broadcast_message(s, p) ==
  LET l == Top(s, p)
      me == s.proc[p]
      lst == IF me.it_live THEN s.connected_clients ELSE me.it_list
      to == lst[me.it_i + 1]
      called == IF s.trace THEN [s EXCEPT !.obs.calls = Append(@, me.ev)] ELSE s
  IN IF l = "bc"
     THEN IF s.connected_clients = <<>>
          THEN Ret([called EXCEPT !.proc[p].ev = <<>>], p)
          ELSE Goto([called EXCEPT !.proc[p].it_live = TRUE, !.proc[p].it_i = 0,
                                   !.obs.bc_start[p] = s.connected_clients], p, "bcl")
     ELSE IF me.it_i < Len(lst)
          THEN Suspend(send_json([s EXCEPT !.proc[p].it_i = @ + 1, !.proc[p].client = to],
                                 p, to, me.ev))
          ELSE Ret(EndBroadcast(s, p, lst), p)

\* update_conference_stage(stage): "ucs_<stage>"
update_conference_stage(s, p) ==
  LET l == Top(s, p)
      to == CASE l = "ucs_introduction" -> "introduction"
              [] l = "ucs_discussion" -> "discussion"
              [] l = "ucs_conclusion" -> "conclusion"
              [] OTHER -> "ended"
  IN Goto([s EXCEPT !.stage = to, !.proc[p].ev = <<"stage_change", to>>], p, "bc")

\* update_current_round(round_num): "ucr"
update_current_round(s, p) ==
  Goto([s EXCEPT !.current_round = s.proc[p].rn,
                  !.proc[p].ev = <<"round_update", s.proc[p].rn>>], p, "bc")

\* add_message with the transcript rebound to a new list that holds the new
\* message only
add_message_rebinds(s, p) ==
  LET l == Top(s, p)
      me == s.proc[p]
      msg == [ id |-> <<"uuid", s.next_uuid, "">>, speakerId |-> me.spk, text |-> me.txt ]
      used == [s EXCEPT !.proc[p].spk = "", !.proc[p].txt = "",
                        !.proc[p].ev = <<"new_message", msg.id>>]
  IN IF l = "am"
     THEN Call([used EXCEPT !.messages = <<msg>>, !.next_uuid = @ + 1], p, "bc", "am1")
     ELSE Sleep(Ret(s, p))

\* add_message(speaker_id, text): "am" entry, "am1" the sleep after the broadcast
add_message(s, p) ==
  LET l == Top(s, p)
      me == s.proc[p]
      known == ParticipantById(s.config.participants, me.spk) # "" \/ me.spk = "moderator"
      msg == [ id |-> <<"uuid", s.next_uuid, "">>, speakerId |-> me.spk, text |-> me.txt ]
      used == [s EXCEPT !.proc[p].spk = "", !.proc[p].txt = "",
                        !.proc[p].ev = <<"new_message", msg.id>>]
  IN IF l = "am"
     THEN IF known
          THEN Call([used EXCEPT !.messages = Append(@, msg), !.next_uuid = @ + 1],
                    p, "bc", "am1")
          ELSE Ret(used, p)
     ELSE Sleep(Ret(s, p))

\* generate_ai_response(prompt, participant_id): the text of the model, or the
\* text of the except branch when the call fails; it always returns a text
generate_ai_response(s, kind) == IF s.gen_fails THEN "fallback" ELSE kind

\* generate_introductions without the skip of the moderator in the loop
generate_introductions_with_moderator(s, p) ==
  LET l == Top(s, p)
      me == s.proc[p]
      parts == s.config.participants
  IN CASE l = "gi0" ->
            Call([s EXCEPT !.proc[p].spk = MODERATOR_ID, !.proc[p].txt = "welcome"],
                 p, "am", "gi1")
       [] l = "gi1" -> Sleep(Goto([s EXCEPT !.proc[p].i = 1], p, "gi2"))
       [] l = "gi2" ->
            IF me.i > Len(parts)
            THEN Ret([s EXCEPT !.proc[p].i = 0], p)
            ELSE IF ~parts[me.i].isActive
            THEN [s EXCEPT !.proc[p].i = @ + 1]
            ELSE Call([s EXCEPT !.proc[p].spk = parts[me.i].id,
                                !.proc[p].txt = generate_ai_response(s, "introduction")],
                      p, "am", "gi3")
       [] OTHER -> Sleep(Goto([s EXCEPT !.proc[p].i = @ + 1], p, "gi2"))

\* generate_introductions: "gi0" the welcome, "gi1" sleep(1), "gi2" the loop
\* head, "gi3" sleep(3) at the end of an iteration
generate_introductions(s, p) ==
  LET l == Top(s, p)
      me == s.proc[p]
      parts == s.config.participants
  IN CASE l = "gi0" ->
            Call([s EXCEPT !.proc[p].spk = MODERATOR_ID, !.proc[p].txt = "welcome"],
                 p, "am", "gi1")
       [] l = "gi1" -> Sleep(Goto([s EXCEPT !.proc[p].i = 1], p, "gi2"))
       [] l = "gi2" ->
            IF me.i > Len(parts)
            THEN Ret([s EXCEPT !.proc[p].i = 0], p)
            ELSE IF ~parts[me.i].isActive \/ parts[me.i].id = MODERATOR_ID
            THEN [s EXCEPT !.proc[p].i = @ + 1]
            ELSE Call([s EXCEPT !.proc[p].spk = parts[me.i].id,
                                !.proc[p].txt = generate_ai_response(s, "introduction")],
                      p, "am", "gi3")
       [] OTHER -> Sleep(Goto([s EXCEPT !.proc[p].i = @ + 1], p, "gi2"))

\* run_discussion_round with the round_completed broadcast moved up, right
\* after the chair's opening
run_discussion_round_completes_early(s, p) ==
  LET l == Top(s, p)
      me == s.proc[p]
      chair == RoundChair(s.config)
      rest == RoundSpeakers(s.config)
      chair_message == [ id |-> <<"round", me.rn, "chair">>, speakerId |-> chair,
                         text |-> generate_ai_response(s, "chair_opening") ]
      message == [ id |-> <<"round", me.rn, rest[me.i].id>>,
                   speakerId |-> rest[me.i].id,
                   text |-> generate_ai_response(s, "discussion") ]
      chair_context == IF me.rn > 1 THEN previous_messages(s.messages, 10) ELSE <<>>
      context == previous_messages(s.messages, 5)
      prompted(id, ctx) ==
        IF s.trace THEN [s EXCEPT !.obs.prompts = Append(@, [id |-> id, context |-> ctx])]
        ELSE s
  IN CASE l = "rdr0" -> Call(s, p, "ucr", "rdr1")
       [] l = "rdr1" ->
            Call([prompted(chair_message.id, chair_context) EXCEPT
                    !.messages = Append(@, chair_message),
                    !.proc[p].ev = <<"new_message", chair_message.id>>], p, "bc", "rdr2")
       [] l = "rdr2" ->
            Call([s EXCEPT !.proc[p].i = 1, !.proc[p].ev = <<"round_completed", me.rn>>],
                 p, "bc", "rdr3")
       [] l = "rdr3" ->
            IF me.i > Len(rest)
            THEN Goto([s EXCEPT !.proc[p].i = 0], p, "rdr5")
            ELSE Call([prompted(message.id, context) EXCEPT
                         !.messages = Append(@, message),
                         !.proc[p].ev = <<"new_message", message.id>>], p, "bc", "rdr4")
       [] l = "rdr4" -> Sleep(Goto([s EXCEPT !.proc[p].i = @ + 1], p, "rdr3"))
       [] OTHER -> Ret(s, p)

\* run_discussion_round(round_num): "rdr0" entry, "rdr1" the chair's opening,
\* "rdr2" sleep(3), "rdr3" the loop head, "rdr4" sleep(4), "rdr5" round_completed
run_discussion_round(s, p) ==
  LET l == Top(s, p)
      me == s.proc[p]
      chair == RoundChair(s.config)
      rest == RoundSpeakers(s.config)
      chair_message == [ id |-> <<"round", me.rn, "chair">>, speakerId |-> chair,
                         text |-> generate_ai_response(s, "chair_opening") ]
      message == [ id |-> <<"round", me.rn, rest[me.i].id>>,
                   speakerId |-> rest[me.i].id,
                   text |-> generate_ai_response(s, "discussion") ]
      chair_context == IF me.rn > 1 THEN previous_messages(s.messages, 10) ELSE <<>>
      context == previous_messages(s.messages, 5)
      prompted(id, ctx) ==
        IF s.trace THEN [s EXCEPT !.obs.prompts = Append(@, [id |-> id, context |-> ctx])]
        ELSE s
  IN CASE l = "rdr0" -> Call(s, p, "ucr", "rdr1")
       [] l = "rdr1" ->
            Call([prompted(chair_message.id, chair_context) EXCEPT
                    !.messages = Append(@, chair_message),
                    !.proc[p].ev = <<"new_message", chair_message.id>>], p, "bc", "rdr2")
       [] l = "rdr2" -> Sleep(Goto([s EXCEPT !.proc[p].i = 1], p, "rdr3"))
       [] l = "rdr3" ->
            IF me.i > Len(rest)
            THEN Goto([s EXCEPT !.proc[p].i = 0], p, "rdr5")
            ELSE Call([prompted(message.id, context) EXCEPT
                         !.messages = Append(@, message),
                         !.proc[p].ev = <<"new_message", message.id>>], p, "bc", "rdr4")
       [] l = "rdr4" -> Sleep(Goto([s EXCEPT !.proc[p].i = @ + 1], p, "rdr3"))
       [] OTHER -> Goto([s EXCEPT !.proc[p].ev = <<"round_completed", me.rn>>], p, "bc")

\* generate_conclusion without the inner try around the summary call: a
\* failure reaches the outer except, which appends the moderator's apology
\* and returns
generate_conclusion_unguarded(s, p) ==
  LET l == Top(s, p)
      chair == ConclusionChair(s.config)
      who == IF chair # "" THEN chair ELSE MODERATOR_ID
  IN CASE l = "gc0" ->
            Call([s EXCEPT !.proc[p].spk = who, !.proc[p].txt = "handoff"], p, "am", "gc1")
       [] l = "gc1" -> Sleep(Goto(s, p, "gc2"))
       [] l = "gc2" ->
            IF s.gen_fails
            THEN Call([s EXCEPT !.proc[p].spk = MODERATOR_ID, !.proc[p].txt = "apology"],
                      p, "am", "gc5")
            ELSE Call([s EXCEPT !.proc[p].spk = MODERATOR_ID, !.proc[p].txt = "summary"],
                      p, "am", "gc3")
       [] l = "gc3" -> Sleep(Goto(s, p, "gc4"))
       [] l = "gc4" ->
            Call([s EXCEPT !.proc[p].spk = who, !.proc[p].txt = "closing"], p, "am", "gc5")
       [] OTHER -> Ret(s, p)

\* generate_conclusion: "gc0" the hand-off, "gc1" sleep(2), "gc2" the summary
\* (its text is the fallback of the inner except when the call fails),
\* "gc3" sleep(3), "gc4" the closing remarks, "gc5" return
generate_conclusion(s, p) ==
  LET l == Top(s, p)
      chair == ConclusionChair(s.config)
      who == IF chair # "" THEN chair ELSE MODERATOR_ID
      conclusion == IF s.gen_fails THEN "fallback" ELSE "summary"
  IN CASE l = "gc0" ->
            Call([s EXCEPT !.proc[p].spk = who, !.proc[p].txt = "handoff"], p, "am", "gc1")
       [] l = "gc1" -> Sleep(Goto(s, p, "gc2"))
       [] l = "gc2" ->
            Call([s EXCEPT !.proc[p].spk = MODERATOR_ID, !.proc[p].txt = conclusion],
                 p, "am", "gc3")
       [] l = "gc3" -> Sleep(Goto(s, p, "gc4"))
       [] l = "gc4" ->
            Call([s EXCEPT !.proc[p].spk = who, !.proc[p].txt = "closing"], p, "am", "gc5")
       [] OTHER -> Ret(s, p)

\* run_conference (the background driver): "rc0" .. "rc8"
run_conference(s, p) ==
  LET l == Top(s, p)
      me == s.proc[p]
  IN CASE l = "rc0" -> Call(s, p, "ucs_introduction", "rc1")
       [] l = "rc1" -> Call(s, p, "gi0", "rc2")
       [] l = "rc2" -> Call([s EXCEPT !.proc[p].rn = 1], p, "ucs_discussion", "rc3")
       [] l = "rc3" ->
            IF me.rn <= s.config.rounds
            THEN Call(s, p, "rdr0", "rc4")
            ELSE Goto([s EXCEPT !.proc[p].rn = 0], p, "rc5")
       [] l = "rc4" -> Goto([s EXCEPT !.proc[p].rn = @ + 1], p, "rc3")
       [] l = "rc5" -> Call(s, p, "ucs_conclusion", "rc6")
       [] l = "rc6" -> Call(s, p, "gc0", "rc7")
       [] l = "rc7" -> Call(s, p, "ucs_ended", "rc8")
       [] OTHER -> Ret(s, p)

\* process_introductions: "pi0" .. "pi3"
process_introductions(s, p) ==
  LET l == Top(s, p)
  IN CASE l = "pi0" -> Call(s, p, "ucs_introduction", "pi1")
       [] l = "pi1" -> Call(s, p, "gi0", "pi2")
       [] l = "pi2" -> Call(s, p, "ucs_discussion", "pi3")
       [] OTHER -> Call([s EXCEPT !.proc[p].rn = 1], p, "rdr0", "pi4")

\* process_conclusion: "pcn0" .. "pcn2"
process_conclusion(s, p) ==
  LET l == Top(s, p)
  IN CASE l = "pcn0" -> Call(s, p, "ucs_conclusion", "pcn1")
       [] l = "pcn1" -> Call(s, p, "gc0", "pcn2")
       [] OTHER -> Goto(s, p, "ucs_ended")

\* process_next_round with the comparison current_round <= total_rounds
process_next_round_off_by_one(s, p) ==
  LET l == Top(s, p)
  IN IF l = "pnr"
     THEN IF s.stage # "discussion"
          THEN Ret(s, p)
          ELSE IF s.current_round <= s.config.rounds
          THEN Call([s EXCEPT !.proc[p].rn = s.current_round + 1], p, "ucr", "pnr1")
          ELSE Goto(s, p, "pcn0")
     ELSE Call(s, p, "rdr0", "pnr2")

\* process_next_round: "pnr" entry, "pnr1" after update_current_round
process_next_round(s, p) ==
  LET l == Top(s, p)
  IN IF l = "pnr"
     THEN IF s.stage # "discussion"
          THEN Ret(s, p)
          ELSE IF s.current_round < s.config.rounds
          THEN Call([s EXCEPT !.proc[p].rn = s.current_round + 1], p, "ucr", "pnr1")
          ELSE Goto(s, p, "pcn0")
     ELSE Call(s, p, "rdr0", "pnr2")

\* the old list object stays with the iterators that were created on it
Rebind(s) ==
  [s EXCEPT !.proc = [q \in Procs |->
                        IF s.proc[q].it_live
                        THEN [s.proc[q] EXCEPT !.it_live = FALSE,
                                               !.it_list = s.connected_clients]
                        ELSE s.proc[q]],
            !.connected_clients = <<>>]

\* end_conference: "ec0" entry, "ec1" the cleanup, "ec2" the loop closing the sockets
end_conference(s, p) ==
  LET l == Top(s, p)
      me == s.proc[p]
      lst == IF me.it_live THEN s.connected_clients ELSE me.it_list
      done == [s EXCEPT !.proc[p].it_live = FALSE, !.proc[p].it_list = <<>>,
                        !.proc[p].it_i = 0]
  IN CASE l = "ec0" ->
            IF s.stage \notin {"conclusion", "ended"}
            THEN Call(s, p, "pcn0", "ec1")
            ELSE Goto(s, p, "ec1")
       [] l = "ec1" ->
            Goto([s EXCEPT !.proc[p].it_live = TRUE, !.proc[p].it_i = 0], p, "ec2")
       [] OTHER ->
            IF me.it_i < Len(lst)
            THEN Suspend([s EXCEPT !.proc[p].it_i = @ + 1,
                                   !.client_state[lst[me.it_i + 1]] = "DISCONNECTED"])
            ELSE Ret(Rebind(done), p)

\* websocket_endpoint with the registration moved before the look-up of the
\* conference id
websocket_endpoint_registers_first(s, p) ==
  LET l == Top(s, p)
      registered == [s EXCEPT !.connected_clients = Append(@, p)]
  IN CASE l = "ws0" ->
            IF ~InStore(s.stage, s.proc[p].conference_id)
            THEN Suspend(Goto([registered EXCEPT !.obs.live[p] = Append(@, <<"error">>)],
                              p, "ws_close"))
            ELSE Suspend(Goto([registered EXCEPT
                                 !.obs.init_sent = @ \cup {p},
                                 !.obs.snapshot[p] = [k \in DOMAIN s.messages |-> s.messages[k].id]],
                              p, "ws1"))
       [] l = "ws_close" ->
            Suspend(Goto([s EXCEPT !.client_state[p] = "DISCONNECTED"], p, "ws_return"))
       [] l = "ws_return" -> Ret(s, p)
       [] l = "ws1" ->
            IF Len(s.connected_clients) = 1 /\ s.stage = "waiting"
            THEN Call(s, p, "pi0", "ws2")
            ELSE Goto(s, p, "ws2")
       [] OTHER -> s

\* websocket_endpoint after accept: "ws0" the look-up of the conference id,
\* then either the error event, "ws_close" the close and "ws_return" the
\* return, or the registration and the init payload, "ws1" the first-client
\* check and "ws2" the receive loop
websocket_endpoint(s, p) ==
  LET l == Top(s, p)
  IN CASE l = "ws0" ->
            IF ~InStore(s.stage, s.proc[p].conference_id)
            THEN Suspend(Goto([s EXCEPT !.obs.live[p] = Append(@, <<"error">>)],
                              p, "ws_close"))
            ELSE Suspend(Goto([s EXCEPT
                                 !.connected_clients = Append(@, p),
                                 !.obs.init_sent = @ \cup {p},
                                 !.obs.snapshot[p] = [k \in DOMAIN s.messages |-> s.messages[k].id]],
                              p, "ws1"))
       [] l = "ws_close" ->
            Suspend(Goto([s EXCEPT !.client_state[p] = "DISCONNECTED"], p, "ws_return"))
       [] l = "ws_return" -> Ret(s, p)
       [] l = "ws1" ->
            IF Len(s.connected_clients) = 1 /\ s.stage = "waiting"
            THEN Call(s, p, "pi0", "ws2")
            ELSE Goto(s, p, "ws2")
       [] OTHER -> s

\* process_client_message without its except clauses: the error of a text that
\* does not parse reaches the receive loop, whose handler drops the socket
process_client_message_strict(s, p, data) ==
  LET message == json_loads(data)
      k == IndexOf(s.connected_clients, p, 1)
  IN IF ~message.ok \/ ~message.dict
     THEN [s EXCEPT !.connected_clients = IF k = 0 THEN @ ELSE RemoveAt(@, k),
                    !.proc[p].stack = <<>>]
     ELSE CASE message.type = "next_round" -> Call(s, p, "pnr", "ws2")
            [] message.type = "end_conference" -> Call(s, p, "ec0", "ws2")
            [] OTHER -> s

\* process_client_message(data) called from the receive loop
process_client_message(s, p, data) ==
  LET message == json_loads(data)
  IN IF ~message.ok \/ ~message.dict
     THEN s
     ELSE CASE message.type = "next_round" -> Call(s, p, "pnr", "ws2")
            [] message.type = "end_conference" -> Call(s, p, "ec0", "ws2")
            [] OTHER -> s

\* labels that only return to the caller after the callee has returned
Epilogue == {"pi4", "pnr2"}

\* one piece of code, up to the next call, return or suspension
Exec(s, p) ==
  LET l == Top(s, p)
  IN CASE l \in {"bc", "bcl"} -> broadcast_message(s, p)
       [] l \in {"ucs_introduction", "ucs_discussion", "ucs_conclusion", "ucs_ended"} ->
            update_conference_stage(s, p)
       [] l = "ucr" -> update_current_round(s, p)
       [] l \in {"am", "am1"} -> add_message(s, p)
       [] l \in {"gi0", "gi1", "gi2", "gi3"} -> generate_introductions(s, p)
       [] l \in {"rdr0", "rdr1", "rdr2", "rdr3", "rdr4", "rdr5"} -> run_discussion_round(s, p)
       [] l \in {"gc0", "gc1", "gc2", "gc3", "gc4", "gc5"} -> generate_conclusion(s, p)
       [] l \in {"rc0", "rc1", "rc2", "rc3", "rc4", "rc5", "rc6", "rc7", "rc8"} ->
            run_conference(s, p)
       [] l \in {"pi0", "pi1", "pi2", "pi3"} -> process_introductions(s, p)
       [] l \in {"pcn0", "pcn1", "pcn2"} -> process_conclusion(s, p)
       [] l \in {"pnr", "pnr1"} -> process_next_round(s, p)
       [] l \in {"ec0", "ec1", "ec2"} -> end_conference(s, p)
       [] l \in {"ws0", "ws1", "ws_close", "ws_return"} -> websocket_endpoint(s, p)
       [] l \in Epilogue -> Ret([s EXCEPT !.proc[p].rn = 0], p)

\* labels at which the code does nothing but sleep
Sleeps == {"am1", "gi1", "gi3", "rdr2", "rdr4", "gc1", "gc3"}

RECURSIVE Run(_, _)
\* the coroutine p runs until it suspends, waits for a payload or returns.  A
\* sleep that directly follows a sleep, with no statement between them, is
\* one suspension.
Run(s, p) ==
  IF s.proc[p].stack = <<>> \/ Top(s, p) = "ws2"
  THEN s
  ELSE IF s.y
  THEN IF s.slept /\ Top(s, p) \in Sleeps THEN Run(Exec(s, p), p) ELSE s
  ELSE Run(Exec(s, p), p)

\* ------------------------------------------------------------------ actions
\* no request to start_conference is on record
NoRequest == [ topic |-> "", participants |-> <<>>, rounds |-> 0, chair |-> "" ]
NoCreation == [ request |-> NoRequest, outcome |-> "none" ]

Init ==
  /\ config \in Configs
  /\ stage = "waiting"
  /\ current_round = 0
  /\ messages = <<>>
  /\ connected_clients = <<>>
  /\ next_uuid = 0
  /\ proc = [p \in Procs |-> [NoLocals EXCEPT !.stack = IF p = DRIVER THEN <<"rc0">> ELSE <<"new">>]]
  /\ client_state = [c \in Sockets |-> "CONNECTING"]
  /\ commands_sent = 0
  /\ end_seen = FALSE
  /\ obs = NoObs
  /\ creation = NoCreation

Runnable(p) == proc[p].stack # <<>> /\ Head(proc[p].stack) \notin {"new", "ws2"}

\* the event loop resumes a coroutine that was suspended in a sleep, a send or a close
Resume(p) ==
  /\ Runnable(p)
  /\ Unpack(Run(Exec(Pack, p), p))
  /\ UNCHANGED << commands_sent, obs, creation >>

\* a client connects: websocket_endpoint runs up to the send of the init payload
Connect(c) ==
  /\ proc[c].stack = <<"new">>
  /\ Unpack(Run([Pack EXCEPT !.proc[c].stack = <<"ws0">>,
                             !.client_state[c] = "CONNECTED"], c))
  /\ UNCHANGED << commands_sent, obs, creation >>

\* receive_text returns a payload
Receive(c, data) ==
  /\ proc[c].stack # <<>> /\ Head(proc[c].stack) = "ws2"
  /\ client_state[c] = "CONNECTED"
  /\ data \in Commands => commands_sent < MaxCommands
  /\ commands_sent' = IF data \in Commands THEN commands_sent + 1 ELSE commands_sent
  /\ Unpack(Run(process_client_message(
                  [Pack EXCEPT !.end_seen = @ \/ (data = END_CONFERENCE /\ stage = "discussion")],
                  c, data), c))
  /\ UNCHANGED << obs, creation >>

\* the peer goes away.  The handler learns of it in receive_text, so the
\* disconnect is taken when the handler waits there.
PeerDisconnect(c) ==
  /\ client_state[c] = "CONNECTED"
  /\ Head(proc[c].stack) = "ws2"
  /\ client_state' = [client_state EXCEPT ![c] = "DISCONNECTED"]
  /\ UNCHANGED << config, stage, current_round, messages, connected_clients, next_uuid,
                  proc, commands_sent, end_seen, obs, creation >>

\* receive_text raises on a socket that is gone: the handler removes the socket
\* from the registry when it is there, and ends
HandlerExit(c) ==
  /\ proc[c].stack # <<>> /\ Head(proc[c].stack) = "ws2"
  /\ client_state[c] = "DISCONNECTED"
  /\ LET k == IndexOf(connected_clients, c, 1)
     IN connected_clients' = IF k = 0 THEN connected_clients ELSE RemoveAt(connected_clients, k)
  /\ proc' = [proc EXCEPT ![c].stack = <<>>]
  /\ UNCHANGED << config, stage, current_round, messages, next_uuid, client_state,
                  commands_sent, end_seen, obs, creation >>

Next ==
  \/ \E p \in Procs : Resume(p)
  \/ \E c \in Conns : Connect(c)
  \/ \E c \in Conns, data \in ClientMessages : Receive(c, data)
  \/ \E c \in Conns : PeerDisconnect(c)
  \/ \E c \in Conns : HandlerExit(c)

Spec == Init /\ [][Next]_vars

\* -------------------------------------------- clients that advance the rounds
\* The same program in the scenario of a conference of RoundsAdvance rounds
\* whose clients (up to MaxSockets) connect while the driver runs round 1 and
\* send next_round payloads.
AdvanceConfig ==
  [ participants |-> << [id |-> MODERATOR_ID, isActive |-> TRUE],
                        [id |-> "A", isActive |-> TRUE] >>,
    rounds |-> RoundsAdvance, chair |-> "" ]

InitAdvance ==
  /\ config = AdvanceConfig
  /\ stage = "waiting"
  /\ current_round = 0
  /\ messages = <<>>
  /\ connected_clients = <<>>
  /\ next_uuid = 0
  /\ proc = [p \in Procs |-> [NoLocals EXCEPT !.stack = IF p = DRIVER THEN <<"rc0">> ELSE <<"new">>]]
  /\ client_state = [c \in Sockets |-> "CONNECTING"]
  /\ commands_sent = 0
  /\ end_seen = FALSE
  /\ obs = NoObs
  /\ creation = NoCreation

\* the sockets are interchangeable: they connect in the order of their numbers
ConnectInRound1(c) ==
  /\ stage = "discussion" /\ current_round = 1
  /\ \A d \in Sockets : d < c => proc[d].stack # <<"new">>
  /\ Connect(c)

NextAdvance ==
  \/ \E p \in Procs : Resume(p)
  \/ \E c \in Sockets : ConnectInRound1(c)
  \/ \E c \in Sockets : Receive(c, NEXT_ROUND)

SpecAdvance == InitAdvance /\ [][NextAdvance]_vars

\* ------------------------------------------------ what the sockets are sent
\* The same program with what every socket is sent on record: a conference of
\* one round whose clients connect once the driver has started, and go away.
HubConfig ==
  [ participants |-> << [id |-> MODERATOR_ID, isActive |-> TRUE],
                        [id |-> "A", isActive |-> TRUE] >>,
    rounds |-> 1, chair |-> "" ]

InitHub ==
  /\ config = HubConfig
  /\ stage = "waiting"
  /\ current_round = 0
  /\ messages = <<>>
  /\ connected_clients = <<>>
  /\ next_uuid = 0
  /\ proc = [p \in Procs |-> [NoLocals EXCEPT !.stack = IF p = DRIVER THEN <<"rc0">> ELSE <<"new">>]]
  /\ client_state = [c \in Sockets |-> "CONNECTING"]
  /\ commands_sent = 0
  /\ end_seen = FALSE
  /\ obs = NoObs
  /\ creation = NoCreation

ResumeHub(p) ==
  /\ Runnable(p)
  /\ LET s == Run(Exec(Pack, p), p)
     IN Unpack(s) /\ obs' = s.obs
  /\ UNCHANGED << commands_sent, creation >>

\* the sockets are interchangeable: they connect in the order of their numbers
ConnectHub(c) ==
  /\ stage # "waiting"
  /\ proc[c].stack = <<"new">>
  /\ \A d \in Sockets : d < c => proc[d].stack # <<"new">>
  /\ LET s == Run([Pack EXCEPT !.proc[c].stack = <<"ws0">>,
                               !.client_state[c] = "CONNECTED"], c)
     IN Unpack(s) /\ obs' = s.obs
  /\ UNCHANGED << commands_sent, creation >>

\* the peer of a connected socket goes away, at any time
PeerGone(c) ==
  /\ client_state[c] = "CONNECTED"
  /\ client_state' = [client_state EXCEPT ![c] = "DISCONNECTED"]
  /\ UNCHANGED << config, stage, current_round, messages, connected_clients, next_uuid,
                  proc, commands_sent, end_seen, obs, creation >>

NextHub ==
  \/ \E p \in Procs : ResumeHub(p)
  \/ \E c \in Sockets : ConnectHub(c)
  \/ \E c \in Sockets : PeerGone(c)
  \/ \E c \in Sockets : HandlerExit(c)

SpecHub == InitHub /\ [][NextHub]_vars

\* ------------------------------------------- creation and the driver alone
\* The conference from the request that creates it: start_conference
\* validates the request, stores the conference and schedules the driver,
\* which then runs with no client; each generation call succeeds or fails.
NoConfig == [ participants |-> <<>>, rounds |-> 0, chair |-> "" ]

ScenarioParticipants ==
  << [id |-> MODERATOR_ID, isActive |-> TRUE], [id |-> "A", isActive |-> TRUE],
     [id |-> "B", isActive |-> TRUE], [id |-> "C", isActive |-> TRUE] >>

ParticipantLists ==
  { ScenarioParticipants,
    << [id |-> MODERATOR_ID, isActive |-> TRUE], [id |-> "A", isActive |-> TRUE],
       [id |-> "B", isActive |-> FALSE] >>,
    << [id |-> "A", isActive |-> TRUE], [id |-> "B", isActive |-> TRUE] >>,
    << [id |-> "A", isActive |-> TRUE] >>,
    << [id |-> MODERATOR_ID, isActive |-> TRUE], [id |-> "A", isActive |-> FALSE] >>,
    << [id |-> "A", isActive |-> TRUE], [id |-> "B", isActive |-> FALSE] >>,
    << [id |-> MODERATOR_ID, isActive |-> TRUE], [id |-> MODERATOR_ID, isActive |-> TRUE],
       [id |-> "A", isActive |-> FALSE] >>,
    << [id |-> MODERATOR_ID, isActive |-> TRUE], [id |-> "A", isActive |-> TRUE],
       [id |-> "B", isActive |-> FALSE], [id |-> "C", isActive |-> TRUE] >> }

\* request bodies that pass the validation of the ConferenceConfig model; a
\* body may carry a chair id, a field the model does not declare
Requests ==
  { [ topic |-> tp, participants |-> ps, rounds |-> r, chair |-> ch ] :
      tp \in {"", "Q3 roadmap"}, ps \in ParticipantLists, r \in 1..MaxRounds,
      ch \in {"", "B"} }

\* len([p for p in config.participants if p.isActive])
ActiveCount(ps) == Len(SelectSeq(ps, LAMBDA q : q.isActive))

InitDriver ==
  /\ config = NoConfig
  /\ stage = ABSENT
  /\ current_round = 0
  /\ messages = <<>>
  /\ connected_clients = <<>>
  /\ next_uuid = 0
  /\ proc = [p \in Procs |-> [NoLocals EXCEPT !.stack = IF p = DRIVER THEN <<>> ELSE <<"new">>]]
  /\ client_state = [c \in Sockets |-> "CONNECTING"]
  /\ commands_sent = 0
  /\ end_seen = FALSE
  /\ obs = NoObs
  /\ creation = NoCreation

\* start_conference without the check of the number of active participants
start_conference_unchecked(req) ==
  /\ creation.outcome = "none"
  /\ IF req.topic = ""
     THEN /\ creation' = [ request |-> req, outcome |-> "failure" ]
          /\ UNCHANGED << config, stage, current_round, messages, proc >>
     ELSE /\ creation' = [ request |-> req, outcome |-> "success" ]
          /\ config' = [ participants |-> req.participants, rounds |-> req.rounds,
                         chair |-> "" ]
          /\ stage' = "waiting"
          /\ current_round' = 0
          /\ messages' = <<>>
          /\ proc' = [proc EXCEPT ![DRIVER].stack = <<"rc0">>]
  /\ UNCHANGED << connected_clients, next_uuid, client_state, commands_sent, end_seen, obs >>

\* start_conference(config): the HTTPException of a failed check is caught by
\* the handler's own except and answered with success False
start_conference(req) ==
  /\ creation.outcome = "none"
  /\ IF ActiveCount(req.participants) < 2 \/ req.topic = ""
     THEN /\ creation' = [ request |-> req, outcome |-> "failure" ]
          /\ UNCHANGED << config, stage, current_round, messages, proc >>
     ELSE /\ creation' = [ request |-> req, outcome |-> "success" ]
          /\ config' = [ participants |-> req.participants, rounds |-> req.rounds,
                         chair |-> "" ]
          /\ stage' = "waiting"
          /\ current_round' = 0
          /\ messages' = <<>>
          /\ proc' = [proc EXCEPT ![DRIVER].stack = <<"rc0">>]
  /\ UNCHANGED << connected_clients, next_uuid, client_state, commands_sent, end_seen, obs >>

\* the driver runs to its next suspension; the generation call of the step,
\* if it makes one, fails when f holds; the calls of broadcast_message are
\* put on record
DriverStep(f) ==
  /\ Runnable(DRIVER)
  /\ LET s == Run(Exec([Pack EXCEPT !.gen_fails = f, !.trace = TRUE], DRIVER), DRIVER)
     IN Unpack(s) /\ obs' = s.obs
  /\ UNCHANGED << commands_sent, creation >>

NextDriver ==
  \/ \E req \in Requests : start_conference(req)
  \/ \E f \in BOOLEAN : DriverStep(f)

SpecDriver == InitDriver /\ [][NextDriver]_vars

\* ------------------------------------------------- requests that name an id
\* The driver alone as above, with requests that name a conference id: the
\* two GET routes with any id, and a socket that subscribes to an id that
\* is not in the store.
\* the answer to a GET that names the conference id cid
Answer(route, cid) == << route, cid, IF InStore(stage, cid) THEN 200 ELSE 404 >>

\* get_conference(conference_id): the conference, or HTTPException 404
get_conference(cid) ==
  /\ obs' = [obs EXCEPT !.http = Answer("conference", cid)]
  /\ UNCHANGED << config, stage, current_round, messages, connected_clients, next_uuid,
                  proc, client_state, commands_sent, end_seen, creation >>

\* get_conference_messages(conference_id): a page of the messages, or 404
get_conference_messages(cid) ==
  /\ obs' = [obs EXCEPT !.http = Answer("messages", cid)]
  /\ UNCHANGED << config, stage, current_round, messages, connected_clients, next_uuid,
                  proc, client_state, commands_sent, end_seen, creation >>

\* a client opens a socket for an id that is not in the store:
\* websocket_endpoint runs up to its first send
SubscribeUnknown(c, cid) ==
  /\ proc[c].stack = <<"new">>
  /\ ~InStore(stage, cid)
  /\ LET s == Run([Pack EXCEPT !.proc[c].stack = <<"ws0">>,
                               !.proc[c].conference_id = cid,
                               !.client_state[c] = "CONNECTED"], c)
     IN Unpack(s) /\ obs' = s.obs
  /\ UNCHANGED << commands_sent, creation >>

\* the requests of this specification: one round, no chair id
LookupRequests == { req \in Requests : req.rounds = 1 /\ req.chair = "" }

NextLookup ==
  \/ \E req \in LookupRequests : start_conference(req)
  \/ \E f \in BOOLEAN : DriverStep(f)
  \/ \E cid \in ConferenceIds : get_conference(cid)
  \/ \E cid \in ConferenceIds : get_conference_messages(cid)
  \/ \E c \in Conns, cid \in ConferenceIds : SubscribeUnknown(c, cid)
  \/ \E c \in Conns : ResumeHub(c)

SpecLookup == InitDriver /\ [][NextLookup]_vars

\* ------------------------------------------------------- one client session
\* The same program with one client that connects at any time, sends up to
\* MaxPayloads texts and may go away at any time.  The event loop is fair:
\* a coroutine that can run does run, and a handler whose socket is gone
\* leaves receive_text.
InitSession ==
  /\ config = HubConfig
  /\ stage = "waiting"
  /\ current_round = 0
  /\ messages = <<>>
  /\ connected_clients = <<>>
  /\ next_uuid = 0
  /\ proc = [p \in Procs |-> [NoLocals EXCEPT !.stack = IF p = DRIVER THEN <<"rc0">> ELSE <<"new">>]]
  /\ client_state = [c \in Sockets |-> "CONNECTING"]
  /\ commands_sent = 0
  /\ end_seen = FALSE
  /\ obs = NoObs
  /\ creation = NoCreation

\* receive_text returns a text: a command, or a text that is ignored; the
\* kind of every text received is put on record
ReceiveSession(c, data) ==
  /\ proc[c].stack # <<>> /\ Head(proc[c].stack) = "ws2"
  /\ client_state[c] = "CONNECTED"
  /\ Len(obs.payloads) < MaxPayloads
  /\ Unpack(Run(process_client_message(Pack, c, data), c))
  /\ obs' = [obs EXCEPT !.payloads =
                Append(@, IF data \in Commands THEN json_loads(data).type ELSE "ignored")]
  /\ commands_sent' = IF data \in Commands THEN commands_sent + 1 ELSE commands_sent
  /\ UNCHANGED << end_seen, creation >>

NextSession ==
  \/ \E p \in Procs : Resume(p)
  \/ \E c \in Conns : Connect(c)
  \/ \E c \in Conns, data \in ClientMessages : ReceiveSession(c, data)
  \/ \E c \in Conns : PeerGone(c)
  \/ \E c \in Conns : HandlerExit(c)

\* The event loop runs every coroutine that is ready: weak fairness of
\* Resume(p), written out with Runnable(p), which is what enables Resume(p)
\* (WF_vars(A) is <>[](ENABLED <<A>>_vars) => []<><<A>>_vars).
FairLoop == \A p \in Procs : <>[]Runnable(p) => []<><<Resume(p)>>_vars

SpecSession ==
  /\ InitSession /\ [][NextSession]_vars
  /\ FairLoop
  /\ \A c \in Conns : WF_vars(HandlerExit(c))

\* ------------------------------------------- two sequences, two sockets
\* Two clients connect during round 1 of a conference of one round, and the
\* first of them may send one next_round command: the driver's round and
\* the handler's conclusion broadcast at the same time.  What each socket is sent
\* is put on record.
InitOrder ==
  /\ config = HubConfig
  /\ stage = "waiting"
  /\ current_round = 0
  /\ messages = <<>>
  /\ connected_clients = <<>>
  /\ next_uuid = 0
  /\ proc = [p \in Procs |-> [NoLocals EXCEPT !.stack = IF p = DRIVER THEN <<"rc0">> ELSE <<"new">>]]
  /\ client_state = [c \in Sockets |-> "CONNECTING"]
  /\ commands_sent = 0
  /\ end_seen = FALSE
  /\ obs = NoObs
  /\ creation = NoCreation

ConnectOrder(c) ==
  /\ stage = "discussion" /\ current_round = 1
  /\ proc[c].stack = <<"new">>
  /\ \A d \in Sockets : d < c => proc[d].stack # <<"new">>
  /\ LET s == Run([Pack EXCEPT !.proc[c].stack = <<"ws0">>,
                               !.client_state[c] = "CONNECTED"], c)
     IN Unpack(s) /\ obs' = s.obs
  /\ UNCHANGED << commands_sent, creation >>

\* receive_text returns the next_round command, once
ReceiveOrder(c) ==
  /\ proc[c].stack # <<>> /\ Head(proc[c].stack) = "ws2"
  /\ client_state[c] = "CONNECTED"
  /\ commands_sent = 0
  /\ LET s == Run(process_client_message(Pack, c, NEXT_ROUND), c)
     IN Unpack(s) /\ obs' = s.obs
  /\ commands_sent' = 1
  /\ UNCHANGED creation

NextOrder ==
  \/ \E p \in Procs : ResumeHub(p)
  \/ \E c \in Sockets : ConnectOrder(c)
  \/ \E c \in Conns : ReceiveOrder(c)

SpecOrder == InitOrder /\ [][NextOrder]_vars

\* ----------------------------------------------------- the end of a conference
\* Clients connect once the driver has started a conference of one round, and
\* one of them sends the end_conference command, in any stage; a handler whose
\* socket was closed leaves receive_text.
InitEnd ==
  /\ config = HubConfig
  /\ stage = "waiting"
  /\ current_round = 0
  /\ messages = <<>>
  /\ connected_clients = <<>>
  /\ next_uuid = 0
  /\ proc = [p \in Procs |-> [NoLocals EXCEPT !.stack = IF p = DRIVER THEN <<"rc0">> ELSE <<"new">>]]
  /\ client_state = [c \in Sockets |-> "CONNECTING"]
  /\ commands_sent = 0
  /\ end_seen = FALSE
  /\ obs = NoObs
  /\ creation = NoCreation

\* the sockets are interchangeable: they connect in the order of their numbers
ConnectEnd(c) ==
  /\ stage # "waiting"
  /\ \A d \in Sockets : d < c => proc[d].stack # <<"new">>
  /\ Connect(c)

\* receive_text returns the end_conference command, once
ReceiveEnd(c) ==
  /\ proc[c].stack # <<>> /\ Head(proc[c].stack) = "ws2"
  /\ client_state[c] = "CONNECTED"
  /\ commands_sent = 0
  /\ Unpack(Run(process_client_message(Pack, c, END_CONFERENCE), c))
  /\ commands_sent' = 1
  /\ UNCHANGED << obs, creation >>

NextEnd ==
  \/ \E p \in Procs : Resume(p)
  \/ \E c \in Sockets : ConnectEnd(c)
  \/ \E c \in Sockets : ReceiveEnd(c)
  \/ \E c \in Sockets : HandlerExit(c)

SpecEnd == InitEnd /\ [][NextEnd]_vars

\* ------------------------------------------------- a round that is advanced to
\* One client connects during round 1 of a conference of MaxRounds rounds and
\* may send one next_round command; what the socket is sent is put on record.
InitRound ==
  /\ config = [HubConfig EXCEPT !.rounds = MaxRounds]
  /\ stage = "waiting"
  /\ current_round = 0
  /\ messages = <<>>
  /\ connected_clients = <<>>
  /\ next_uuid = 0
  /\ proc = [p \in Procs |-> [NoLocals EXCEPT !.stack = IF p = DRIVER THEN <<"rc0">> ELSE <<"new">>]]
  /\ client_state = [c \in Sockets |-> "CONNECTING"]
  /\ commands_sent = 0
  /\ end_seen = FALSE
  /\ obs = NoObs
  /\ creation = NoCreation

NextRound ==
  \/ \E p \in Procs : ResumeHub(p)
  \/ \E c \in Conns : ConnectOrder(c)
  \/ \E c \in Conns : ReceiveOrder(c)

SpecRound == InitRound /\ [][NextRound]_vars

\* ------------------------------------------------ one round and its prompts
\* run_discussion_round as a function of the messages it finds: the driver
\* runs one round, round_num 1 or later, on messages of any length up to
\* MaxTranscript whose texts all differ; the context of each prompt is put on
\* record.
InitContext ==
  /\ config = [ participants |-> ScenarioParticipants, rounds |-> MaxRounds, chair |-> "" ]
  /\ stage = "discussion"
  /\ \E n \in 0..MaxTranscript :
        /\ messages = [j \in 1..n |-> [ id |-> <<"uuid", j - 1, "">>,
                                        speakerId |-> MODERATOR_ID, text |-> ToString(j) ]]
        /\ next_uuid = n
  /\ \E rn \in 1..MaxRounds :
        /\ current_round = rn - 1
        /\ proc = [p \in Procs |->
                    IF p = DRIVER THEN [NoLocals EXCEPT !.stack = <<"rdr0">>, !.rn = rn]
                    ELSE [NoLocals EXCEPT !.stack = <<"new">>]]
  /\ connected_clients = <<>>
  /\ client_state = [c \in Sockets |-> "CONNECTING"]
  /\ commands_sent = 0
  /\ end_seen = FALSE
  /\ obs = NoObs
  /\ creation = NoCreation

NextContext == \E f \in BOOLEAN : DriverStep(f)

SpecContext == InitContext /\ [][NextContext]_vars

\* ------------------------------------------------------------------- claims
Rank(st) ==
  CASE st = "waiting" -> 0
    [] st = "introduction" -> 1
    [] st = "discussion" -> 2
    [] st = "conclusion" -> 3
    [] st = "ended" -> 4

\* C1: the stage never moves backward in the order waiting < introduction <
\* discussion < conclusion < ended.
C1_StageNeverBackward == [][Rank(stage') >= Rank(stage)]_vars

\* C2: no step skips a stage, except that an end command before any round has
\* executed takes the stage from introduction to conclusion.
C2_NoStageSkipped ==
  [][Rank(stage') > Rank(stage) + 1
       => (stage = "introduction" /\ stage' = "conclusion" /\ current_round = 0)]_vars

\* the code positions inside an introduction phase, a discussion round or a
\* conclusion phase
PhaseLabels ==
  {"gi0", "gi1", "gi2", "gi3", "rdr0", "rdr1", "rdr2", "rdr3", "rdr4", "rdr5",
   "gc0", "gc1", "gc2", "gc3", "gc4", "gc5"}

InFlight(p) == \E k \in 1..Len(proc[p].stack) : proc[p].stack[k] \in PhaseLabels

\* C3: at most one orchestration sequence (introduction phase, discussion
\* round, conclusion phase) is in flight for the conference.
C3_OneSequenceInFlight == Cardinality({p \in Procs : InFlight(p)}) <= 1

ChairOpeningAppended ==
  \E k \in (Len(messages) + 1)..Len(messages') : messages'[k].text = "chair_opening"

\* C4: once an end_conference command was received in stage discussion, no
\* further round starts: no chair opening is appended and current_round is
\* not written to a new value.
C4_NoRoundAfterEnd ==
  [][end_seen => (~ChairOpeningAppended /\ current_round' = current_round)]_vars

\* C5: no two messages of the transcript have the same id.
C5_UniqueMessageIds ==
  \A a, b \in DOMAIN messages : a # b => messages[a].id # messages[b].id

\* C6: the transcript is append-only: in every step the transcript before
\* the step is a prefix of the transcript after it.
C6_TranscriptAppendOnly ==
  [][Len(messages') >= Len(messages)
       /\ SubSeq(messages', 1, Len(messages)) = messages]_vars

\* C6 witness: messages were appended by a round that an advance command
\* started, by the driver, and the client has gone since.
C6_Witness ==
  /\ Len(messages) >= 5
  /\ commands_sent >= 1
  /\ \E c \in Conns : client_state[c] = "DISCONNECTED"

\* C7: current_round never decreases.
C7_RoundNeverDecreases == [][current_round' >= current_round]_vars

\* C8: 0 <= current_round <= rounds in every state.
C8_RoundWithinBounds == 0 <= current_round /\ current_round <= config.rounds

\* C8 witness: the last round was started by an advance command while the
\* driver had not reached it.
C8_Witness ==
  /\ current_round = config.rounds
  /\ config.rounds > 1
  /\ proc[DRIVER].stack # <<>> /\ proc[DRIVER].rn = 1
  /\ \E c \in Conns : \E k \in 1..Len(proc[c].stack) : proc[c].stack[k] = "pnr2"

\* C9: current_round changes only in steps taken in stage discussion.
C9_RoundChangesOnlyInDiscussion ==
  [][current_round' # current_round => stage' = "discussion"]_vars

\* no coroutine is running: each has returned, has not started, or waits in
\* receive_text
Finished == \A p \in Procs : proc[p].stack \in {<<>>, <<"new">>, <<"ws2">>}

ChairMessagesOf(n) == {k \in DOMAIN messages : messages[k].id = <<"round", n, "chair">>}

\* C10: when the conference has run to completion, the transcript holds for
\* every round exactly one chair message followed by one message of each
\* remaining speaker in list order.
C10_OneRoundMessageEach ==
  (stage = "ended" /\ Finished) =>
    \A n \in 1..config.rounds :
      /\ Cardinality(ChairMessagesOf(n)) = 1
      /\ LET c == CHOOSE k \in ChairMessagesOf(n) : TRUE
             rest == RoundSpeakers(config)
         IN \A j \in 1..Len(rest) :
              /\ c + j <= Len(messages)
              /\ messages[c + j].id = <<"round", n, rest[j].id>>

\* C11: rounds do not interleave in the transcript: no message of round N is
\* appended after the chair message of round N+1.
C11_RoundsDoNotInterleave ==
  \A a, b \in DOMAIN messages :
    (a < b /\ messages[a].id[1] = "round" /\ messages[a].id[3] = "chair"
       /\ messages[b].id[1] = "round")
      => messages[b].id[2] # messages[a].id[2] - 1

IsPrefix(a, b) == Len(a) <= Len(b) /\ \A k \in 1..Len(a) : a[k] = b[k]

MessageIds == [k \in DOMAIN messages |-> messages[k].id]

\* the ids of the messages socket c was sent: its snapshot, then its live events
Got(c) ==
  LET news == SelectSeq(obs.live[c], LAMBDA e : e[1] = "new_message")
  IN obs.snapshot[c] \o [k \in DOMAIN news |-> news[k][2]]

\* C12: what a socket is sent (snapshot, then live messages) is the transcript
\* with no gap and no duplicate: always a prefix of the transcript, and the
\* whole transcript when nothing is running and the socket is still connected.
C12_SnapshotThenLiveIsTranscript ==
  \A c \in obs.init_sent :
    /\ IsPrefix(Got(c), MessageIds)
    /\ (Finished /\ client_state[c] = "CONNECTED" /\ c \in Range(connected_clients))
         => Got(c) = MessageIds

\* the send of the init payload to socket c has returned
SnapshotSendCompleted(c) ==
  proc[c].stack # <<"new">> /\ (proc[c].stack = <<>> \/ Head(proc[c].stack) # "ws1")

\* C13: no broadcast sends to a socket whose snapshot send has not completed.
C13_NoBroadcastBeforeSnapshot ==
  \A p \in Procs :
    (proc[p].stack # <<>> /\ Head(proc[p].stack) = "bcl" /\ proc[p].client # 0)
      => SnapshotSendCompleted(proc[p].client)

\* C14: a broadcast tries every socket that is registered from its start to
\* its end, whatever registers or is removed meanwhile.
C14_BroadcastReachesAllRegistered == obs.missed = {}

\* C15: a send that fails in a broadcast does not keep the broadcast from the
\* other registered sockets, and does not end the sequence that broadcasts:
\* the driver returns only after the closing remarks.
C15_FailureIsContained ==
  /\ obs.blocked = {}
  /\ proc[DRIVER].stack = <<>> => \E k \in DOMAIN messages : messages[k].text = "closing"

\* C15 witness: a broadcast failed on the first registered socket and then
\* sent the event to the second.
C15_Witness ==
  \E p \in Procs :
    /\ Len(obs.bc_start[p]) = 2
    /\ obs.bc_start[p][1] \in obs.bc_failed[p]
    /\ obs.bc_start[p][2] \in obs.bc_sent[p]

\* C16: a socket on which a send failed is removed from the registry, so no
\* later send to it is attempted: at most one send to a socket fails.
C16_FailedSocketPruned == \A c \in Sockets : obs.failures[c] <= 1

Turn(spk, txt, st, rnd) == [ spk |-> spk, txt |-> txt, stage |-> st, round |-> rnd ]

\* the turns of a conference that the driver runs alone, every generation
\* call succeeding: speaker, text, and the stage and round after the turn
ExpectedTurns(cfg) ==
  LET spks == SelectSeq(cfg.participants, IsSpeaker)
      rest == RoundSpeakers(cfg)
      L == 1 + Len(rest)
      who == IF ConclusionChair(cfg) # "" THEN ConclusionChair(cfg) ELSE MODERATOR_ID
      intro == [k \in 1..Len(spks) |-> Turn(spks[k].id, "introduction", "introduction", 0)]
      rounds == [j \in 1..(cfg.rounds * L) |->
                   LET n == (j - 1) \div L + 1
                       pos == (j - 1) % L
                   IN IF pos = 0
                      THEN Turn(RoundChair(cfg), "chair_opening", "discussion", n)
                      ELSE Turn(rest[pos].id, "discussion", "discussion", n)]
  IN << Turn(MODERATOR_ID, "welcome", "introduction", 0) >> \o intro \o rounds \o
     << Turn(who, "handoff", "conclusion", cfg.rounds),
        Turn(MODERATOR_ID, "summary", "conclusion", cfg.rounds),
        Turn(who, "closing", "conclusion", cfg.rounds) >>

\* the texts that come from a generation call
Generated == {"introduction", "chair_opening", "discussion", "summary"}

\* C17: whichever generation calls fail, the transcript has at every position
\* the speaker of the run without failures and either that run's text or, in
\* a generated turn, the fallback; stage and current_round are those of that
\* run after the same number of messages.
C17_FallbackKeepsTheSequence ==
  LET E == ExpectedTurns(config)
      n == Len(messages)
  IN n > 0 =>
       /\ n <= Len(E)
       /\ \A k \in 1..n :
            /\ messages[k].speakerId = E[k].spk
            /\ \/ messages[k].text = E[k].txt
               \/ E[k].txt \in Generated /\ messages[k].text = "fallback"
       /\ stage = E[n].stage \/ (n = Len(E) /\ stage = "ended")
       /\ current_round = E[n].round

\* C17 witness: a conference has ended in which an introduction, a chair
\* opening, a remark and the summary each fell back, and another turn did not.
C17_Witness ==
  /\ stage = "ended"
  /\ \A kind \in Generated :
       \E k \in DOMAIN messages :
         ExpectedTurns(config)[k].txt = kind /\ messages[k].text = "fallback"
  /\ \E k \in DOMAIN messages : messages[k].text \in Generated

\* the scenario: the moderator and three active participants, two rounds,
\* run to completion by the driver
ScenarioDone ==
  /\ config.participants = ScenarioParticipants
  /\ config.rounds = 2
  /\ stage = "ended"
  /\ proc[DRIVER].stack = <<>>

\* the messages before the first message of a round
BeforeRounds == {k \in DOMAIN messages : \A j \in 1..k : messages[j].id[1] # "round"}

\* C18 as stated: the scenario ends with 12 messages, of which 1 welcome and
\* 2 introductions precede the rounds.
C18_ScenarioTwelveMessages ==
  ScenarioDone => Len(messages) = 12 /\ Cardinality(BeforeRounds) = 3

\* C18 amended: the scenario ends with 13 messages: 1 welcome and 3
\* introductions, 1 chair and 2 participant messages in each of the two
\* rounds, then hand-off, summary and closing.
C18_ScenarioThirteenMessages ==
  ScenarioDone =>
    /\ Len(messages) = 13
    /\ [k \in DOMAIN messages |-> messages[k].speakerId] =
         << "moderator", "A", "B", "C", "A", "B", "C", "A", "B", "C",
            "A", "moderator", "A" >>
    /\ [k \in DOMAIN messages |-> messages[k].id[1]] =
         << "uuid", "uuid", "uuid", "uuid", "round", "round", "round",
            "round", "round", "round", "uuid", "uuid", "uuid" >>
    /\ [k \in 5..10 |-> messages[k].id[2]] = [k \in 5..10 |-> IF k <= 7 THEN 1 ELSE 2]
    /\ messages[1].text = "welcome" /\ messages[11].text = "handoff"
    /\ messages[13].text = "closing"

\* C18 witness: the scenario has ended and no generation call failed.
C18_Witness ==
  ScenarioDone /\ \A k \in DOMAIN messages : messages[k].text # "fallback"

\* C19: a request with fewer than two active participants or an empty topic
\* is answered with a failure; nothing is stored and no driver is started.
C19_InvalidRequestRejected ==
  (creation.outcome # "none"
     /\ (ActiveCount(creation.request.participants) < 2 \/ creation.request.topic = ""))
    => /\ creation.outcome = "failure"
       /\ stage = ABSENT /\ config = NoConfig
       /\ messages = <<>> /\ current_round = 0
       /\ proc[DRIVER].stack = <<>>

\* C19 witness: a request with a topic and one active participant was refused.
C19_Witness ==
  /\ creation.outcome = "failure"
  /\ creation.request.topic # ""
  /\ ActiveCount(creation.request.participants) = 1

\* C20: a next_round command received when the stage is not discussion or
\* the last round is current leaves stage, current_round and transcript as
\* they are.
C20_AdvanceOnlyBeforeLastRound ==
  [][(commands_sent' > commands_sent
        /\ ~(stage = "discussion" /\ current_round < config.rounds))
       => (stage' = stage /\ current_round' = current_round /\ messages' = messages)]_vars

\* C21: a text that is not valid JSON, or whose type is neither next_round nor
\* end_conference, is ignored: receiving it leaves stage, current_round, the
\* messages and the registry as they were, sends nothing (no coroutine moves
\* to a send), and leaves the sender's socket open with its handler back in
\* the receive loop, ready for the next text.
C21_IgnoredTextChangesNothing ==
  [][(/\ Len(obs'.payloads) = Len(obs.payloads) + 1
      /\ obs'.payloads[Len(obs'.payloads)] = "ignored")
     => /\ stage' = stage /\ current_round' = current_round
        /\ messages' = messages /\ connected_clients' = connected_clients
        /\ proc' = proc /\ client_state' = client_state
        /\ \E c \in Conns : /\ client_state'[c] = "CONNECTED"
                             /\ Head(proc'[c].stack) = "ws2"]_vars

\* an ignored text was followed by a command that the same handler is running
C21_Witness ==
  /\ obs.payloads = <<"ignored", "end_conference">>
  /\ \E c \in Conns : /\ proc[c].stack # <<>>
                       /\ Head(proc[c].stack) \in {"ec1", "ec2", "bcl"}
                       /\ "ws2" \in Range(proc[c].stack)

\* the place of an event in the log of broadcast_message calls, 0 when absent
Pos(ev) ==
  IF \E k \in 1..Len(obs.calls) : obs.calls[k] = ev
  THEN CHOOSE k \in 1..Len(obs.calls) :
         obs.calls[k] = ev /\ \A j \in 1..(k - 1) : obs.calls[j] # ev
  ELSE 0

\* the last place of an event in the log, 0 when absent
LastPos(ev) ==
  IF \E k \in 1..Len(obs.calls) : obs.calls[k] = ev
  THEN CHOOSE k \in 1..Len(obs.calls) :
         obs.calls[k] = ev /\ \A j \in (k + 1)..Len(obs.calls) : obs.calls[j] # ev
  ELSE 0

\* the stage a message belongs to: round messages to the discussion, the
\* welcome and the introductions to the introduction, the rest to the conclusion
StageOf(m) ==
  IF m.id[1] = "round" THEN "discussion"
  ELSE IF m.text \in {"welcome", "introduction"}
          \/ (m.text = "fallback" /\ m.speakerId # MODERATOR_ID)
       THEN "introduction"
       ELSE "conclusion"

\* C22: in the driver's sequence the stage_change of a stage is broadcast
\* before any message of that stage is appended or broadcast, round_update
\* of round n is broadcast before the chair's message of round n, and
\* round_completed of round n is broadcast after every message of round n.
C22_EventsPrecedeContent ==
  /\ \A k \in 1..Len(messages) :
        LET m == messages[k]
            changed == Pos(<<"stage_change", StageOf(m)>>)
            sent == Pos(<<"new_message", m.id>>)
        IN /\ changed > 0
           /\ sent > 0 => changed < sent
           /\ m.id[1] = "round" =>
                LET started == Pos(<<"round_update", m.id[2]>>)
                    completed == Pos(<<"round_completed", m.id[2]>>)
                IN /\ started > 0
                   /\ sent > 0 => started < sent
                   /\ completed > 0 => (sent > 0 /\ LastPos(<<"new_message", m.id>>) < completed)
  /\ \A n \in 1..MaxRounds :
        Pos(<<"round_completed", n>>) > 0 =>
          \A r \in Range(RoundSpeakers(config)) :
            \E k \in 1..Len(messages) : messages[k].id = <<"round", n, r.id>>

\* the driver has run a whole conference of MaxRounds rounds
C22_Witness ==
  /\ stage = "ended"
  /\ Pos(<<"round_completed", MaxRounds>>) > 0
  /\ Len(RoundSpeakers(config)) >= 2

\* C23: the introduction phase runs once in a conference, whichever of the
\* driver and the first connection starts it: the messages hold at most one
\* welcome of the moderator and at most one introduction of each participant.
C23_IntroductionRunsOnce ==
  \A j, k \in 1..Len(messages) :
    (/\ messages[j].text \in {"welcome", "introduction"}
     /\ messages[j].text = messages[k].text
     /\ messages[j].speakerId = messages[k].speakerId) => j = k

\* C24: under a fair event loop, whatever the client does, the conference
\* eventually reaches stage ended and stays there forever.
C24_EventuallyEndedForever == <>[](stage = "ended")

\* C25: every message of the conference has a speakerId that is the id of a
\* participant of the conference's list or the moderator's id, the chair's
\* messages of a conference with no active non-moderator participant included.
C25_SpeakerIsKnown ==
  \A k \in 1..Len(messages) :
    \/ messages[k].speakerId = MODERATOR_ID
    \/ \E q \in Range(config.participants) : q.id = messages[k].speakerId

\* C26: no message of a discussion round, the chair's opening or a
\* participant's remark, is attributed to the moderator or to a participant
\* whose isActive flag is false; the moderator's messages are the welcome
\* that opens the introduction and messages of the conclusion flow only.
C26_ModeratorAndInactiveOutOfRounds ==
  \A k \in 1..Len(messages) :
    LET m == messages[k]
    IN /\ m.id[1] = "round" =>
            /\ m.speakerId # MODERATOR_ID
            /\ \A q \in Range(config.participants) : q.id = m.speakerId => q.isActive
       /\ m.speakerId = MODERATOR_ID =>
            /\ m.id[1] # "round"
            /\ m.text \in {"welcome", "handoff", "summary", "fallback", "closing"}

\* a conference with the moderator and an inactive participant in its list
\* has ended after rounds with a chair's opening and a participant's remark
C26_Witness ==
  /\ stage = "ended"
  /\ \E q \in Range(config.participants) : q.id = MODERATOR_ID /\ q.isActive
  /\ \E q \in Range(config.participants) : ~q.isActive
  /\ \E j, k \in 1..Len(messages) :
        /\ messages[j].id = <<"round", 1, "chair">>
        /\ messages[k].id[1] = "round" /\ messages[k].id[3] # "chair"
  /\ \E k \in 1..Len(messages) :
        messages[k].speakerId = MODERATOR_ID /\ messages[k].text = "summary"

\* the messages of the conclusion flow, in the order of their appending
ConclusionMessages == SelectSeq(messages, LAMBDA m : StageOf(m) = "conclusion")

\* C27: the conclusion flow appends three messages, in this order: the
\* hand-off by the chair (by the moderator when there is no chair), the
\* moderator's summary, and the closing remarks by the chair (or the
\* moderator); none of them before the stage is conclusion, and the stage is
\* ended only when all three are appended, also when the summary call fails.
C27_ConclusionAppendsThree ==
  LET chair == ConclusionChair(config)
      who == IF chair # "" THEN chair ELSE MODERATOR_ID
      got == ConclusionMessages
  IN /\ Len(got) <= 3
     /\ Len(got) >= 1 => got[1].speakerId = who /\ got[1].text = "handoff"
     /\ Len(got) >= 2 => got[2].speakerId = MODERATOR_ID /\ got[2].text \in {"summary", "fallback"}
     /\ Len(got) >= 3 => got[3].speakerId = who /\ got[3].text = "closing"
     /\ Len(got) >= 1 => stage \in {"conclusion", "ended"}
     /\ stage = "ended" =>
          /\ Len(got) = 3
          /\ SubSeq(messages, Len(messages) - 2, Len(messages)) = got

\* a conference with no chair has ended whose summary call failed: the
\* moderator handed off, gave the fallback summary and closed
C27_Witness ==
  /\ stage = "ended"
  /\ Len(ConclusionMessages) = 3
  /\ ConclusionMessages[2].text = "fallback"
  /\ ConclusionChair(config) = ""

\* what the store and the registry hold
StoreAndRegistry == << config, stage, current_round, messages, connected_clients >>

\* the handler of socket c is on the path of an id that is not in the store
OnUnknownPath(c) ==
  obs.live[c] = << <<"error">> >> /\ obs.snapshot[c] = <<>> /\ c \notin obs.init_sent

\* C28: a request that names an id that is not in the store has no effect:
\* the two GET routes answer 404 exactly for such an id and change nothing;
\* a socket opened for such an id is sent one error event and nothing else,
\* is closed before its handler returns and is never in the registry, and
\* no step of its handler changes the store or the registry.
C28_UnknownIdNoEffect ==
  /\ [](\A c \in Conns :
          \/ obs.live[c] = <<>> /\ proc[c].stack = <<"new">>
          \/ /\ OnUnknownPath(c)
             /\ c \notin Range(connected_clients)
             /\ proc[c].stack \in {<<"ws_close">>, <<"ws_return">>, <<>>}
             /\ proc[c].stack # <<"ws_close">> => client_state[c] = "DISCONNECTED")
  /\ [][/\ obs'.http # obs.http =>
            /\ obs'.http[3] = 404 <=> ~InStore(stage, obs'.http[2])
            /\ StoreAndRegistry' = StoreAndRegistry
            /\ proc' = proc /\ client_state' = client_state
        /\ \A c \in Conns : proc'[c] # proc[c] => StoreAndRegistry' = StoreAndRegistry]_vars

\* while a conference is stored and under way, a socket opened for another
\* id was sent the error event and closed, its handler has returned, and a
\* GET of the messages of that id was answered 404
C28_Witness ==
  /\ stage \notin {ABSENT, "waiting"}
  /\ obs.http = <<"messages", "other", 404>>
  /\ \E c \in Conns : /\ OnUnknownPath(c) /\ proc[c].stack = <<>>
                       /\ proc[c].conference_id = "other"
                       /\ client_state[c] = "DISCONNECTED"

\* the step leaves coroutine p suspended in a send_json of its broadcast loop
SendAttempt(p) ==
  /\ proc'[p].stack # <<>> /\ Head(proc'[p].stack) = "bcl"
  /\ << proc'[p].stack, proc'[p].it_i, proc'[p].ev >> # << proc[p].stack, proc[p].it_i, proc[p].ev >>

\* C29: a socket that has disconnected is eventually out of the registry,
\* and no broadcast sends to a socket that has disconnected, whenever the
\* disconnect happens, also while the socket's handler runs the first
\* client's introduction sequence or a command.
C29_DisconnectedIsDropped ==
  /\ \A c \in Conns : (client_state[c] = "DISCONNECTED") ~> (c \notin Range(connected_clients))
  /\ [][\A p \in Procs :
          SendAttempt(p) => client_state[proc'[p].client] # "DISCONNECTED"]_vars

\* C30: the chair is the participant named by the request's chair id when
\* that id is given and that participant is active, otherwise the first active
\* non-moderator participant of the list, otherwise the placeholder chair;
\* every round's opening and the hand-off and closing of the conclusion are
\* by that chair (by the moderator where the chair is the placeholder).
C30_ChairAsConfigured ==
  creation.outcome = "success" =>
    LET req == creation.request
        named == SelectSeq(req.participants, LAMBDA q : q.id = req.chair /\ q.isActive)
        first == FirstSpeaker(req.participants)
        chair == IF req.chair # "" /\ named # <<>> THEN req.chair
                 ELSE IF first # "" THEN first
                 ELSE "default_chair"
    IN \A k \in 1..Len(messages) :
         /\ (messages[k].id[1] = "round" /\ messages[k].id[3] = "chair")
              => messages[k].speakerId = chair
         /\ messages[k].text \in {"handoff", "closing"}
              => messages[k].speakerId = IF chair = "default_chair" THEN MODERATOR_ID ELSE chair

\* C31: the prompt of the chair's opening of round n > 1 holds the texts of
\* the last min(10, length) messages and that of round 1 holds none; the
\* prompt of each speaker after the chair holds the texts of the last
\* min(5, length) messages as they are at that speaker's turn, the messages
\* of the same round included.
C31_ContextWindow ==
  \A r \in Range(obs.prompts) :
    \E k \in 1..Len(messages) :
      /\ messages[k].id = r.id
      /\ LET window == IF r.id[3] # "chair" THEN 5 ELSE IF r.id[2] > 1 THEN 10 ELSE 0
             n == IF window < k - 1 THEN window ELSE k - 1
         IN /\ Len(r.context) = n
            /\ \A j \in 1..n : r.context[j] = messages[k - 1 - n + j].text

\* round 2 was run on more than 10 messages: the chair's prompt held 10
\* texts, and the prompt of the last speaker held 5, among them the chair's
\* opening and the remark of the speaker before
C31_Witness ==
  /\ proc[DRIVER].stack = <<>>
  /\ \E a, b \in Range(obs.prompts) :
        /\ a.id = <<"round", 2, "chair">> /\ Len(a.context) = 10
        /\ a.context[10] = ToString(MaxTranscript)
        /\ b.id = <<"round", 2, "C">>
        /\ b.context = << ToString(MaxTranscript - 2), ToString(MaxTranscript - 1),
                          ToString(MaxTranscript), "chair_opening", "discussion" >>

\* C32: once the stage is ended nothing more happens to the conference: no
\* message is appended, current_round does not change, and no stage_change
\* (other than that of ended itself), round_update or new_message event is
\* sent, also when the driver or a handler's sequence was under way when
\* ended was reached.
C32_NothingAfterEnded ==
  [][stage = "ended" =>
       /\ messages' = messages
       /\ current_round' = current_round
       /\ \A p \in Procs :
            SendAttempt(p) =>
              \/ proc'[p].ev = <<"stage_change", "ended">>
              \/ proc'[p].ev[1] \notin {"stage_change", "round_update", "new_message"}]_vars

\* C33: the conclusion flow runs at most once in a conference, whatever the
\* combination of the driver's progression after the last round, end
\* commands and advance commands in the last round: the messages hold at
\* most one hand-off, one summary of the moderator and one closing message.
C33_ConclusionRunsOnce ==
  \A txt \in {"handoff", "summary", "closing"} :
    Cardinality({k \in 1..Len(messages) : messages[k].text = txt}) <= 1

RECURSIVE Embeds(_, _)
\* a is b with some elements left out
Embeds(a, b) ==
  IF a = <<>> THEN TRUE
  ELSE IF b = <<>> THEN FALSE
  ELSE IF Head(a) = Head(b) THEN Embeds(Tail(a), Tail(b))
  ELSE Embeds(a, Tail(b))

\* the ids of the new_message events sent to socket c, in the order of sending
Delivered(c) ==
  LET news == SelectSeq(obs.live[c], LAMBDA e : e[1] = "new_message")
  IN [k \in DOMAIN news |-> news[k][2]]

\* C34: a socket is sent the new_message events in the order of the
\* messages: what it was sent is the sequence of messages with some left out,
\* for every interleaving of broadcasts that run at the same time.
C34_DeliveredInTranscriptOrder ==
  \A c \in Sockets : Embeds(Delivered(c), MessageIds)


\* C35: when end_conference has finished (its conclusion flow, if any, and
\* its cleanup), every socket that is in the registry of the conference at
\* that moment has been closed and the registry is left empty, in whatever
\* stage the command arrived; the conference is still in the store, so that
\* get_conference and get_conference_messages answer 200.
EndFinishes(p) ==
  /\ proc[p].stack # <<>> /\ Head(proc[p].stack) = "ec2"
  /\ \A k \in 1..Len(proc'[p].stack) : proc'[p].stack[k] # "ec2"

C35_EndClosesAllRegistered ==
  [][\A p \in Sockets :
       EndFinishes(p) =>
         /\ connected_clients' = <<>>
         /\ \A c \in Range(connected_clients) : client_state'[c] = "DISCONNECTED"
         /\ Answer("conference", THE_ID)[3] = 200
         /\ Answer("messages", THE_ID)[3] = 200]_vars


\* the driver is in its call of run_discussion_round for round r
DriverInRound(r) ==
  /\ proc[DRIVER].rn = r
  /\ proc[DRIVER].stack # <<>>
  /\ proc[DRIVER].stack[Len(proc[DRIVER].stack)] = "rc4"

\* the round_update payloads for round r that socket c was sent
RoundUpdates(c, r) == SelectSeq(obs.live[c], LAMBDA e : e = <<"round_update", r>>)

\* C36: a round started by a next_round command sends each registered socket
\* one round_update for the new round: while the driver is still in round 1,
\* so that only the commands have started round 2, a socket has been sent at
\* most as many round_update payloads for round 2 as commands were received.
C36_OneRoundUpdatePerStart ==
  \A c \in Sockets : DriverInRound(1) => Len(RoundUpdates(c, 2)) <= commands_sent

====
